---------------------------- MODULE Spec2Model ----------------------------
(***************************************************************************)
(* The column compaction ("take compacted indices") kernel of              *)
(* src/query/expression/src/kernels/take_compact.rs.                       *)
(*                                                                         *)
(* A run list is a sequence of pairs <<index, cnt>>: cnt copies of the     *)
(* source row at the 0-based position index.  Source positions are         *)
(* 0-based as in the code; TLA+ sequences are 1-based, so row p of a       *)
(* sequence s is s[p + 1].                                                 *)
(***************************************************************************)
EXTENDS Integers, Sequences, FiniteSets

VARIABLES build, src, indices, row_num, k, ret, pc

vars == <<build, src, indices, row_num, k, ret, pc>>

-----------------------------------------------------------------------------
(* Bounds of the run lists the model enumerates. *)

\* the longest run list
MaxRuns == 2

\* the largest repeat count of one run
MaxCnt == 4

-----------------------------------------------------------------------------
(* Small helpers. *)

RECURSIVE Pow2(_)
Pow2(n) == IF n = 0 THEN 1 ELSE 2 * Pow2(n - 1)

RECURSIVE BitLen(_)
BitLen(n) == IF n = 0 THEN 0 ELSE 1 + BitLen(n \div 2)

\* u32::leading_zeros
leading_zeros(cnt) == 32 - BitLen(cnt)

\* indices.iter().fold(0, |acc, &(_, x)| acc + x as usize)
RECURSIVE SumCnt(_)
SumCnt(runs) == IF runs = <<>> THEN 0 ELSE runs[1][2] + SumCnt(Tail(runs))

\* A loop bound one too far: cur_segment <= max_segment.
LePow2(x, sh) == IF sh >= 31 THEN TRUE ELSE x <= Pow2(sh)

\* cur_segment < max_segment with max_segment = 1 << sh, for a usize x the
\* model can hold (x < 2^31) and 0 <= sh < 64
LtPow2(x, sh) == IF sh >= 31 THEN TRUE ELSE x < Pow2(sh)

-----------------------------------------------------------------------------
(* Column::take_primitive_types, one step per copy_nonoverlapping call.    *)
(*                                                                         *)
(* The record k is one invocation: its arguments, its locals, the output   *)
(* allocation (builder, with the set of cells written so far) and the      *)
(* copy the last step performed.  Three fields only observe the run that   *)
(* last entered the doubling path: its count (dbl_cnt), the copies its     *)
(* doubling loop has made (dbl, with dbl_done once the loop was left) and   *)
(* its remainder copies (rem).                                             *)

NoCopy == [from |-> "none", s |-> 0, d |-> 0, n |-> 0]

PrimInit(col, runs, n, b) ==
    [ pc          |-> "assert",
      col         |-> col,
      indices     |-> runs,
      row_num     |-> n,
      build       |-> b,
      i           |-> 1,
      offset      |-> 0,
      base_offset |-> 0,
      remain      |-> 0,
      max_shift   |-> 0,
      cur_segment |-> 1,
      builder     |-> [p \in 0..(n - 1) |-> 0],
      written     |-> {},
      len         |-> 0,
      copy        |-> NoCopy,
      dbl_cnt     |-> 0,
      dbl         |-> 0,
      dbl_done    |-> FALSE,
      rem         |-> 0 ]

\* The conditions std::ptr::copy_nonoverlapping needs: the destination lies in
\* the allocation of row_num elements, the source is readable (inside the
\* source buffer, or cells of the output written earlier), and the two ranges
\* do not overlap.
CopySafe(st, cp) ==
    /\ cp.d + cp.n <= st.row_num
    /\ cp.from = "col" => cp.s + cp.n <= Len(st.col)
    /\ cp.from = "out" =>
          /\ \A p \in cp.s..(cp.s + cp.n - 1) : p \in st.written
          /\ (cp.s + cp.n <= cp.d \/ cp.d + cp.n <= cp.s)

\* copy_nonoverlapping with the two pointers of a copy from the source
\* exchanged: the source cells are overwritten from the output.
copy_nonoverlapping_swapped(st, cp) ==
    IF ~CopySafe(st, cp)
    THEN [st EXCEPT !.pc = "ub", !.copy = cp]
    ELSE IF cp.from = "col"
    THEN [st EXCEPT
            !.col = [q \in DOMAIN st.col |->
                        IF (q - 1) \in cp.s..(cp.s + cp.n - 1)
                        THEN st.builder[cp.d + (q - 1 - cp.s)]
                        ELSE st.col[q]],
            !.written = @ \cup (cp.d..(cp.d + cp.n - 1)),
            !.copy    = cp]
    ELSE [st EXCEPT
            !.builder = [p \in DOMAIN st.builder |->
                            IF p \in cp.d..(cp.d + cp.n - 1)
                            THEN st.builder[cp.s + (p - cp.d)]
                            ELSE st.builder[p]],
            !.written = @ \cup (cp.d..(cp.d + cp.n - 1)),
            !.copy    = cp]

\* One copy.  An unsafe copy is undefined behaviour: the invocation moves to
\* "ub", from where nothing about it is known any more.
copy_nonoverlapping(st, cp) ==
    IF ~CopySafe(st, cp)
    THEN [st EXCEPT !.pc = "ub", !.copy = cp]
    ELSE [st EXCEPT
            !.builder = [p \in DOMAIN st.builder |->
                            IF p \in cp.d..(cp.d + cp.n - 1)
                            THEN IF cp.from = "col"
                                 THEN st.col[cp.s + (p - cp.d) + 1]
                                 ELSE st.builder[cp.s + (p - cp.d)]
                            ELSE st.builder[p]],
            !.written = @ \cup (cp.d..(cp.d + cp.n - 1)),
            !.copy    = cp]

\* debug_assert_eq!(sum of cnt, row_num): compiled in debug builds only.
debug_assert_sum(runs, n, b) == b = "debug" => SumCnt(runs) = n

StepAssert(st) ==
    IF debug_assert_sum(st.indices, st.row_num, st.build)
    THEN [st EXCEPT !.pc = "run"]
    ELSE [st EXCEPT !.pc = "panic"]

\* Head of the for loop: the copy of the source element, then either the
\* cnt == 1 shortcut or the set-up of the doubling loop.  For cnt = 0,
\* 31 - cnt.leading_zeros() is 31 - 32 in u32: an overflow panic in a debug
\* build, 0xFFFFFFFF in a release build, where the shift 1 << 0xFFFFFFFF is
\* masked to 1 << 63 (0xFFFFFFFF % 64 = (31 - 32) % 64 = 63).
StepRun(st) ==
    IF st.i > Len(st.indices)
    THEN [st EXCEPT !.pc = "set_len", !.copy = NoCopy]
    ELSE LET index == st.indices[st.i][1]
             cnt   == st.indices[st.i][2]
             w     == copy_nonoverlapping(st,
                         [from |-> "col", s |-> index, d |-> st.offset, n |-> 1])
         IN  IF w.pc = "ub" THEN w
             ELSE IF cnt = 1
             THEN [w EXCEPT !.offset = @ + 1, !.i = @ + 1]
             ELSE IF cnt = 0 /\ st.build = "debug"
             THEN [w EXCEPT !.pc = "panic"]
             ELSE [w EXCEPT !.base_offset = st.offset,
                            !.remain      = cnt,
                            !.max_shift   = (31 - leading_zeros(cnt)) % 64,
                            !.cur_segment = 1,
                            !.pc          = "doubling",
                            !.dbl_cnt     = cnt,
                            !.dbl         = 0,
                            !.dbl_done    = FALSE,
                            !.rem         = 0]

\* while cur_segment < max_segment { copy; cur_segment <<= 1 }, and after the
\* loop: remain -= max_segment; offset += max_segment.
StepDoubling(st) ==
    IF LtPow2(st.cur_segment, st.max_shift)
    THEN LET w == copy_nonoverlapping(st,
                     [from |-> "out", s |-> st.base_offset,
                      d |-> st.base_offset + st.cur_segment, n |-> st.cur_segment])
         IN  IF w.pc = "ub" THEN w
             ELSE [w EXCEPT !.cur_segment = 2 * @, !.dbl = @ + 1]
    ELSE LET max_segment == Pow2(st.max_shift)
             remain      == st.remain - max_segment
         IN  IF remain > 0
             THEN [st EXCEPT !.remain = remain, !.offset = @ + max_segment,
                             !.pc = "remainder", !.copy = NoCopy,
                             !.dbl_done = TRUE]
             ELSE [st EXCEPT !.remain = remain, !.offset = @ + max_segment,
                             !.i = @ + 1, !.pc = "run", !.copy = NoCopy,
                             !.dbl_done = TRUE]

\* The remainder copy without its offset += remain.
StepRemainderNoAdvance(st) ==
    LET w == copy_nonoverlapping(st,
                [from |-> "out", s |-> st.base_offset, d |-> st.offset,
                 n |-> st.remain])
    IN  IF w.pc = "ub" THEN w ELSE [w EXCEPT !.i = @ + 1, !.pc = "run"]

\* if remain > 0 { copy(builder[base_offset..], builder[offset..], remain) }
StepRemainder(st) ==
    LET w == copy_nonoverlapping(st,
                [from |-> "out", s |-> st.base_offset, d |-> st.offset,
                 n |-> st.remain])
    IN  IF w.pc = "ub" THEN w
        ELSE [w EXCEPT !.offset = @ + st.remain, !.i = @ + 1, !.pc = "run",
                       !.rem = @ + 1]

\* unsafe { builder.set_len(offset) }
StepSetLen(st) == [st EXCEPT !.len = st.offset, !.pc = "done", !.copy = NoCopy]

PrimTerminal == {"done", "panic", "ub"}

PrimStep(st) ==
    CASE st.pc = "assert"    -> StepAssert(st)
      [] st.pc = "run"       -> StepRun(st)
      [] st.pc = "doubling"  -> StepDoubling(st)
      [] st.pc = "remainder" -> StepRemainder(st)
      [] st.pc = "set_len"   -> StepSetLen(st)
      [] OTHER               -> st

RECURSIVE PrimRun(_)
PrimRun(st) == IF st.pc \in PrimTerminal THEN st ELSE PrimRun(PrimStep(st))

\* The Vec<T> the call returns: the first len cells of the allocation.
PrimResult(st) ==
    IF st.pc = "done"
    THEN [status |-> "ok", vec |-> [p \in 1..st.len |-> st.builder[p - 1]]]
    ELSE [status |-> st.pc]

take_primitive_types(col, runs, n, b) == PrimResult(PrimRun(PrimInit(col, runs, n, b)))

-----------------------------------------------------------------------------
(* Columns.                                                                *)
(*                                                                         *)
(*   [kind |-> "Null" | "EmptyArray" | "EmptyMap", len |-> n]              *)
(*   [kind |-> "Number" | "Timestamp" | "Date", values |-> buffer]         *)
(*   [kind |-> "Decimal", values |-> buffer, size |-> <<precision, scale>>]*)
(*   [kind |-> "Boolean", bits |-> bitmap]                                 *)
(*   [kind |-> "String" | "Bitmap" | "Variant", items |-> payloads]        *)
(*   [kind |-> "Array", values |-> inner elements, offsets |-> offsets]    *)
(*   [kind |-> "Map", kv |-> inner <<key, value>> pairs, offsets |-> ...]  *)
(*   [kind |-> "Nullable", column |-> inner column, validity |-> bitmap]   *)
(*   [kind |-> "Tuple", fields |-> sequence of columns]                    *)
(*                                                                         *)
(* A payload of a String, Bitmap or Variant column and an element of an    *)
(* Array or Map is an opaque value, modelled by a number.                  *)

PlaceholderKinds == {"Null", "EmptyArray", "EmptyMap"}
PrimitiveKinds   == {"Number", "Decimal", "Timestamp", "Date"}
ArgKinds         == {"String", "Bitmap", "Variant"}

\* The result of a call: a value, a panic, or undefined behaviour.
Ok(c)  == [status |-> "ok", col |-> c]
Failed(status) == [status |-> status]

\* Column::len: the row count derivable from the payload (a Nullable's is its
\* validity bitmap's, a Tuple's is its first field's).
RECURSIVE ColLen(_)
ColLen(c) ==
    CASE c.kind \in PlaceholderKinds -> c.len
      [] c.kind \in PrimitiveKinds   -> Len(c.values)
      [] c.kind = "Boolean"          -> Len(c.bits)
      [] c.kind \in ArgKinds         -> Len(c.items)
      [] c.kind \in {"Array", "Map"} -> Len(c.offsets) - 1
      [] c.kind = "Nullable"         -> Len(c.validity)
      [] c.kind = "Tuple"            -> IF c.fields = <<>> THEN 0 ELSE ColLen(c.fields[1])

\* Column::slice(lo..hi): rows lo .. hi-1.  A placeholder column has no payload
\* and only a length, so its slice is the placeholder of hi - lo rows; an Array
\* or Map slice keeps the inner column and cuts the offsets.
RECURSIVE Column_slice(_, _, _)
Column_slice(c, lo, hi) ==
    CASE c.kind \in PlaceholderKinds -> [c EXCEPT !.len = hi - lo]
      [] c.kind \in PrimitiveKinds   -> [c EXCEPT !.values = SubSeq(@, lo + 1, hi)]
      [] c.kind = "Boolean"          -> [c EXCEPT !.bits = SubSeq(@, lo + 1, hi)]
      [] c.kind \in ArgKinds         -> [c EXCEPT !.items = SubSeq(@, lo + 1, hi)]
      [] c.kind \in {"Array", "Map"} -> [c EXCEPT !.offsets = SubSeq(@, lo + 1, hi + 1)]
      [] c.kind = "Nullable"         ->
            [c EXCEPT !.column = Column_slice(@, lo, hi),
                      !.validity = SubSeq(@, lo + 1, hi)]
      [] c.kind = "Tuple"            ->
            [c EXCEPT !.fields = [f \in DOMAIN c.fields |-> Column_slice(c.fields[f], lo, hi)]]

\* for _ in 0..cnt { builder.push(val) }
RECURSIVE PushN(_, _, _)
PushN(builder, val, cnt) ==
    IF cnt = 0 THEN builder ELSE PushN(Append(builder, val), val, cnt - 1)

\* The run loop of take_bool_types and take_compact_arg_types: one unchecked
\* read of col at index per run, pushed cnt times.
RECURSIVE FillRuns(_, _, _)
FillRuns(builder, col, runs) ==
    IF runs = <<>> THEN builder
    ELSE FillRuns(PushN(builder, col[runs[1][1] + 1], runs[1][2]), col, Tail(runs))

\* take_bool_types with the bit read at the run's position in the run list
\* instead of at its index.
take_bool_types_by_position(col, runs, n, b) ==
    IF ~debug_assert_sum(runs, n, b) THEN Failed("panic")
    ELSE [status |-> "ok",
          bits |-> FillRuns(<<>>, col, [j \in DOMAIN runs |->
                                           <<(j - 1) % Len(col), runs[j][2]>>])]

\* Column::take_bool_types
take_bool_types(col, runs, n, b) ==
    IF ~debug_assert_sum(runs, n, b) THEN Failed("panic")
    ELSE [status |-> "ok", bits |-> FillRuns(<<>>, col, runs)]

\* take_bool_types run by run: the state of one invocation is its position
\* (pc, i) and its own bitmap under construction (col_builder).
BoolInit(col, runs, n, b) ==
    [ pc          |-> "assert",
      col         |-> col,
      indices     |-> runs,
      row_num     |-> n,
      build       |-> b,
      i           |-> 1,
      col_builder |-> <<>> ]

StepBoolAssert(st) ==
    IF debug_assert_sum(st.indices, st.row_num, st.build)
    THEN [st EXCEPT !.pc = "run"]
    ELSE [st EXCEPT !.pc = "panic"]

\* One iteration of the run loop: get_bit_unchecked(index), cnt pushes.
StepBoolRun(st) ==
    IF st.i > Len(st.indices)
    THEN [st EXCEPT !.pc = "done"]
    ELSE LET index == st.indices[st.i][1]
             cnt   == st.indices[st.i][2]
         IN  [st EXCEPT !.col_builder = PushN(@, st.col[index + 1], cnt),
                        !.i = @ + 1]

BoolStep(st) ==
    CASE st.pc = "assert" -> StepBoolAssert(st)
      [] st.pc = "run"    -> StepBoolRun(st)
      [] OTHER            -> st

BoolResult(st) ==
    IF st.pc = "done"
    THEN [status |-> "ok", bits |-> st.col_builder]
    ELSE [status |-> st.pc]

\* take_compact_arg_types with the inner loop one push short (1..cnt).
take_compact_arg_types_short(col, runs, n) ==
    [status |-> "ok",
     items |-> FillRuns(<<>>, col,
                  [j \in DOMAIN runs |->
                      <<runs[j][1], IF runs[j][2] = 0 THEN 0 ELSE runs[j][2] - 1>>])]

\* Column::take_compact_arg_types: no assertion on the sum of the counts.
take_compact_arg_types(col, runs, n) ==
    [status |-> "ok", items |-> FillRuns(<<>>, col, runs)]

\* ArrayType / MapType index_column_unchecked: the inner elements of row index.
index_column_unchecked(inner, offsets, index) ==
    SubSeq(inner, offsets[index + 1] + 1, offsets[index + 2])

\* ArrayColumnBuilder push_item: append the item's elements to the inner
\* builder and the new inner length to the offsets.  For a Map the inner
\* builder is a KvColumnBuilder: keys and values advance in lockstep.
push_item(kind, builder, item) ==
    IF kind = "Map"
    THEN [keys    |-> builder.keys \o [e \in DOMAIN item |-> item[e][1]],
          values  |-> builder.values \o [e \in DOMAIN item |-> item[e][2]],
          offsets |-> Append(builder.offsets, Len(builder.keys) + Len(item))]
    ELSE [values  |-> builder.values \o item,
          offsets |-> Append(builder.offsets, Len(builder.values) + Len(item))]

RECURSIVE PushItemN(_, _, _, _)
PushItemN(kind, builder, item, cnt) ==
    IF cnt = 0 THEN builder
    ELSE PushItemN(kind, push_item(kind, builder, item), item, cnt - 1)

RECURSIVE ScalarFill(_, _, _, _, _)
ScalarFill(kind, builder, inner, offsets, runs) ==
    IF runs = <<>> THEN builder
    ELSE ScalarFill(kind,
                    PushItemN(kind, builder,
                              index_column_unchecked(inner, offsets, runs[1][1]),
                              runs[1][2]),
                    inner, offsets, Tail(runs))

\* The scalar run loop with one push per run, whatever its count.
RECURSIVE ScalarFillOnce(_, _, _, _, _)
ScalarFillOnce(kind, builder, inner, offsets, runs) ==
    IF runs = <<>> THEN builder
    ELSE ScalarFillOnce(kind,
                    push_item(kind, builder,
                              index_column_unchecked(inner, offsets, runs[1][1])),
                    inner, offsets, Tail(runs))

\* build_column + upcast_column of the filled builder.
build_column(kind, builder) ==
    IF kind = "Map"
    THEN [kind |-> "Map",
          kv |-> [e \in DOMAIN builder.keys |-> <<builder.keys[e], builder.values[e]>>],
          offsets |-> builder.offsets]
    ELSE [kind |-> "Array", values |-> builder.values, offsets |-> builder.offsets]

\* take_scalar_types that pushes each run's item once.
take_scalar_types_once(kind, inner, offsets, builder, runs, n, b) ==
    IF ~debug_assert_sum(runs, n, b) THEN Failed("panic")
    ELSE Ok(build_column(kind, ScalarFillOnce(kind, builder, inner, offsets, runs)))

\* Column::take_scalar_types, for T = ArrayType<AnyType> and MapType<..>.
take_scalar_types(kind, inner, offsets, builder, runs, n, b) ==
    IF ~debug_assert_sum(runs, n, b) THEN Failed("panic")
    ELSE Ok(build_column(kind, ScalarFill(kind, builder, inner, offsets, runs)))

\* Null | EmptyArray | EmptyMap => self.slice(0..length), length = indices.len()
placeholder_take(c, runs, n) == Column_slice(c, 0, Len(runs))

\* Column::take_compacted_indices
RECURSIVE Column_take_compacted_indices(_, _, _, _)
Column_take_compacted_indices(c, runs, n, b) ==
    CASE c.kind \in PlaceholderKinds -> Ok(placeholder_take(c, runs, n))
      [] c.kind \in PrimitiveKinds ->
            LET r == take_primitive_types(c.values, runs, n, b)
            IN  IF r.status = "ok" THEN Ok([c EXCEPT !.values = r.vec])
                ELSE Failed(r.status)
      [] c.kind = "Boolean" ->
            LET r == take_bool_types(c.bits, runs, n, b)
            IN  IF r.status = "ok" THEN Ok([c EXCEPT !.bits = r.bits])
                ELSE Failed(r.status)
      [] c.kind \in ArgKinds ->
            LET r == take_compact_arg_types(c.items, runs, n)
            IN  Ok([c EXCEPT !.items = r.items])
      [] c.kind = "Array" ->
            take_scalar_types("Array", c.values, c.offsets,
                              [values |-> <<>>, offsets |-> <<0>>], runs, n, b)
      [] c.kind = "Map" ->
            take_scalar_types("Map", c.kv, c.offsets,
                              [keys |-> <<>>, values |-> <<>>, offsets |-> <<0>>],
                              runs, n, b)
      [] c.kind = "Nullable" ->
            LET column == Column_take_compacted_indices(c.column, runs, n, b)
            IN  IF column.status # "ok" THEN column
                ELSE LET validity == take_bool_types(c.validity, runs, n, b)
                     IN  IF validity.status # "ok" THEN Failed(validity.status)
                         ELSE Ok([kind |-> "Nullable", column |-> column.col,
                                  validity |-> validity.bits])
      [] c.kind = "Tuple" ->
            LET fields == [f \in DOMAIN c.fields |->
                              Column_take_compacted_indices(c.fields[f], runs, n, b)]
                bad    == {f \in DOMAIN fields : fields[f].status # "ok"}
            IN  IF bad # {}
                THEN fields[CHOOSE f \in bad : \A g \in bad : f <= g]
                ELSE Ok([kind |-> "Tuple",
                         fields |-> [f \in DOMAIN fields |-> fields[f].col]])

-----------------------------------------------------------------------------
(* Record batches.  An entry is [data_type, value], its value either       *)
(* [tag |-> "Scalar", scalar |-> v] or [tag |-> "Column", column |-> c];   *)
(* a block is [columns |-> sequence of entries, num_rows |-> n].           *)

ScalarEntry(t, v) == [data_type |-> t, value |-> [tag |-> "Scalar", scalar |-> v]]
ColumnEntry(t, c) == [data_type |-> t, value |-> [tag |-> "Column", column |-> c]]

\* DataBlock::new
DataBlock_new(columns, num_rows) == [columns |-> columns, num_rows |-> num_rows]

\* DataBlock::slice(lo..hi): scalar entries as they are, column entries
\* sliced, hi - lo rows.
DataBlock_slice(block, lo, hi) ==
    DataBlock_new(
        [e \in DOMAIN block.columns |->
            LET entry == block.columns[e]
            IN  IF entry.value.tag = "Scalar" THEN entry
                ELSE ColumnEntry(entry.data_type, Column_slice(entry.value.column, lo, hi))],
        hi - lo)

\* A row count taken from the run list instead of from row_num.
after_num_rows_from_runs(runs, n) == Len(runs)

\* The row count of the rebuilt block: DataBlock::new(after_columns, row_num).
after_num_rows(runs, n) == n

\* The map over the entries: a scalar entry is cloned, a column entry is the
\* column-level take.  The result also counts the column-level calls made
\* (the map stops at the first call that does not return).
DataBlock_dispatch(block, runs, n, b) ==
    LET after == [e \in DOMAIN block.columns |->
                    LET entry == block.columns[e]
                    IN  IF entry.value.tag = "Scalar"
                        THEN [status |-> "ok",
                              entry |-> ScalarEntry(entry.data_type, entry.value.scalar)]
                        ELSE LET r == Column_take_compacted_indices(
                                          entry.value.column, runs, n, b)
                             IN  IF r.status = "ok"
                                 THEN [status |-> "ok",
                                       entry |-> ColumnEntry(entry.data_type, r.col)]
                                 ELSE Failed(r.status)]
        bad   == {e \in DOMAIN after : after[e].status # "ok"}
        first == CHOOSE e \in bad : \A g \in bad : e <= g
        cols(upto) == {e \in 1..upto : block.columns[e].value.tag = "Column"}
    IN  IF bad # {}
        THEN [status |-> after[first].status, calls |-> Cardinality(cols(first))]
        ELSE [status |-> "ok",
              block  |-> DataBlock_new([e \in DOMAIN after |-> after[e].entry],
                                       after_num_rows(runs, n)),
              calls  |-> Cardinality(cols(Len(block.columns)))]

\* The batch-level take without its empty-run-list shortcut.
DataBlock_take_always_dispatch(block, runs, n, b) ==
    DataBlock_dispatch(block, runs, n, b)

\* DataBlock::take_compacted_indices
DataBlock_take_compacted_indices(block, runs, n, b) ==
    IF runs = <<>>
    THEN [status |-> "ok", block |-> DataBlock_slice(block, 0, 0), calls |-> 0]
    ELSE DataBlock_dispatch(block, runs, n, b)

-----------------------------------------------------------------------------
(* The inputs the model enumerates. *)

Builds == {"debug", "release"}

\* Fixed-width source buffers.
Buffers == { <<>>, <<10>>, <<10, 20>>, <<10, 20, 30>>, <<20, 20, 10>> }

SeqsUpTo(S, n) == UNION { [1..m -> S] : m \in 0..n }

\* Every run list of at most MaxRuns runs over a source of len rows whose
\* indices are in bounds (the caller contract every unchecked access relies
\* on) and whose counts are at most MaxCnt; a count may be 0.
RunLists(len) == SeqsUpTo((0..(len - 1)) \X (0..MaxCnt), MaxRuns)

\* How far the row_num argument may be off the sum of the counts.
Skews == {0 - 1, 0, 1}

RowNums(runs) == { n \in { SumCnt(runs) + d : d \in Skews } : n >= 0 }

\* Bit-packed buffers (Boolean columns, validity bitmaps).
Bitmaps == { <<>>, <<TRUE>>, <<TRUE, FALSE>>, <<TRUE, FALSE, TRUE>>, <<FALSE, FALSE, TRUE>> }

Lens == { Len(buf) : buf \in Buffers }

Num(buf) == [kind |-> "Number", values |-> buf]
Str(items) == [kind |-> "String", items |-> items]
Placeholder(kind, n) == [kind |-> kind, len |-> n]
Nullable(c, bits) == [kind |-> "Nullable", column |-> c, validity |-> bits]
Tuple(fields) == [kind |-> "Tuple", fields |-> fields]

PlaceholderCols == { Placeholder(kd, n) : kd \in PlaceholderKinds, n \in Lens }

PrimitiveCols ==
    { Num(buf) : buf \in Buffers }
    \cup { [kind |-> "Decimal", values |-> buf, size |-> <<38, 2>>] : buf \in {<<10, 20>>} }
    \cup { [kind |-> kd, values |-> buf] : kd \in {"Timestamp", "Date"}, buf \in {<<10, 20>>} }

BooleanCols == { [kind |-> "Boolean", bits |-> bits] : bits \in Bitmaps }

ArgCols ==
    { [kind |-> kd, items |-> items] :
         kd \in ArgKinds, items \in {<<>>, <<10, 20>>, <<20, 20, 10>>} }

\* Array columns: no row; rows [10,20], [], [30]; rows [10], [20,30]; and a
\* slice (offsets that do not start at 0) holding the one row [20,30].
ArrayCols ==
    { [kind |-> "Array", values |-> <<>>, offsets |-> <<0>>],
      [kind |-> "Array", values |-> <<10, 20, 30>>, offsets |-> <<0, 2, 2, 3>>],
      [kind |-> "Array", values |-> <<10, 20, 30>>, offsets |-> <<0, 1, 3>>],
      [kind |-> "Array", values |-> <<10, 20, 30>>, offsets |-> <<1, 3>>] }

MapCols ==
    { [kind |-> "Map", kv |-> <<>>, offsets |-> <<0>>],
      [kind |-> "Map", kv |-> << <<10, 20>>, <<20, 30>>, <<30, 10>> >>,
       offsets |-> <<0, 1, 3>>],
      [kind |-> "Map", kv |-> << <<10, 20>>, <<20, 30>>, <<30, 10>> >>,
       offsets |-> <<0, 0, 3, 3>>] }

NullableCols ==
    { Nullable(Num(<<10, 20, 30>>), <<TRUE, FALSE, TRUE>>),
      Nullable(Num(<<10, 20>>), <<TRUE, FALSE>>),
      Nullable(Str(<<10, 20>>), <<TRUE, FALSE>>),
      Nullable([kind |-> "Boolean", bits |-> <<FALSE, TRUE>>], <<TRUE, FALSE>>),
      Nullable([kind |-> "Array", values |-> <<10, 20, 30>>, offsets |-> <<0, 1, 3>>],
               <<TRUE, FALSE>>),
      Nullable(Placeholder("Null", 2), <<TRUE, FALSE>>),
      Nullable(Placeholder("EmptyArray", 1), <<TRUE>>),
      Nullable(Placeholder("EmptyMap", 3), <<FALSE, FALSE, TRUE>>),
      Nullable(Num(<<>>), <<>>) }

TupleCols ==
    { Tuple(<< Num(<<10, 20, 30>>), [kind |-> "Boolean", bits |-> <<TRUE, FALSE, TRUE>>] >>),
      Tuple(<< Str(<<10, 20>>), Placeholder("Null", 2) >>),
      Tuple(<< Placeholder("EmptyArray", 2),
               Nullable(Num(<<10, 20>>), <<TRUE, FALSE>>) >>),
      Tuple(<< Num(<<10>>) >>) }

Columns ==
    PlaceholderCols \cup PrimitiveCols \cup BooleanCols \cup ArgCols \cup ArrayCols
    \cup MapCols \cup NullableCols \cup TupleCols

\* Record batches: every column entry of a block has the block's row count.
Blocks ==
    { DataBlock_new(<<>>, 0),
      DataBlock_new(<< ColumnEntry("Number", Num(<<>>)) >>, 0),
      DataBlock_new(<< ColumnEntry("Boolean", [kind |-> "Boolean", bits |-> <<TRUE>>]) >>, 1),
      DataBlock_new(<< ScalarEntry("Number", 30) >>, 2),
      DataBlock_new(<< ScalarEntry("String", 20), ColumnEntry("String", Str(<<10, 20>>)) >>, 2),
      DataBlock_new(<< ColumnEntry("Null", Placeholder("Null", 2)),
                       ColumnEntry("Number", Num(<<10, 20>>)) >>, 2),
      DataBlock_new(<< ColumnEntry("Number", Num(<<10, 20, 30>>)),
                       ScalarEntry("Number", 10) >>, 3),
      DataBlock_new(<< ColumnEntry("Nullable(Number)",
                                   Nullable(Num(<<10, 20, 30>>), <<TRUE, FALSE, TRUE>>)),
                       ColumnEntry("Array(Number)",
                                   [kind |-> "Array", values |-> <<10, 20, 30>>,
                                    offsets |-> <<0, 2, 2, 3>>]) >>, 3) }

\* The identity run list of a source of len rows: [(0,1), (1,1), ..., (len-1,1)].
IdentityRuns(len) == [j \in 1..len |-> <<j - 1, 1>>]

\* The locals of take_primitive_types when no call of it is being stepped.
PrimIdle == PrimInit(<<>>, <<>>, 0, "release")

NoRet == [status |-> "none"]

-----------------------------------------------------------------------------
(* Specification SpecPrim: one call of take_primitive_types, copy by copy. *)

InitPrim ==
    /\ build \in Builds
    /\ src \in Buffers
    /\ indices \in RunLists(Len(src))
    /\ row_num \in RowNums(indices)
    /\ k = PrimInit(src, indices, row_num, build)
    /\ ret = NoRet
    /\ pc = "running"

PrimUnchanged == UNCHANGED <<build, src, indices, row_num, ret, pc>>

PrimAssert ==
    /\ pc = "running" /\ k.pc = "assert"
    /\ k' = StepAssert(k)
    /\ PrimUnchanged

PrimRunHead ==
    /\ pc = "running" /\ k.pc = "run"
    /\ k' = StepRun(k)
    /\ PrimUnchanged

PrimDoubling ==
    /\ pc = "running" /\ k.pc = "doubling"
    /\ k' = StepDoubling(k)
    /\ PrimUnchanged

PrimRemainder ==
    /\ pc = "running" /\ k.pc = "remainder"
    /\ k' = StepRemainder(k)
    /\ PrimUnchanged

PrimSetLen ==
    /\ pc = "running" /\ k.pc = "set_len"
    /\ k' = StepSetLen(k)
    /\ PrimUnchanged

PrimReturn ==
    /\ pc = "running" /\ k.pc \in PrimTerminal
    /\ ret' = PrimResult(k)
    /\ pc' = "returned"
    /\ UNCHANGED <<build, src, indices, row_num, k>>

NextPrim ==
    PrimAssert \/ PrimRunHead \/ PrimDoubling \/ PrimRemainder \/ PrimSetLen \/ PrimReturn

SpecPrim == InitPrim /\ [][NextPrim]_vars

-----------------------------------------------------------------------------
(* Specification SpecCol: one call of Column::take_compacted_indices.  The *)
(* run lists are the bounded ones and the identity run list of the source. *)

InitCol ==
    /\ build \in Builds
    /\ src \in Columns
    /\ indices \in RunLists(ColLen(src)) \cup {IdentityRuns(ColLen(src))}
    /\ row_num \in RowNums(indices)
    /\ k = PrimIdle
    /\ ret = NoRet
    /\ pc = "call"

TakeColumn ==
    /\ pc = "call"
    /\ ret' = Column_take_compacted_indices(src, indices, row_num, build)
    /\ pc' = "returned"
    /\ UNCHANGED <<build, src, indices, row_num, k>>

NextCol == TakeColumn

SpecCol == InitCol /\ [][NextCol]_vars

-----------------------------------------------------------------------------
(* Specification SpecBlock: one call of DataBlock::take_compacted_indices. *)

InitBlock ==
    /\ build \in Builds
    /\ src \in Blocks
    /\ indices \in RunLists(src.num_rows)
    /\ row_num \in RowNums(indices)
    /\ k = PrimIdle
    /\ ret = NoRet
    /\ pc = "call"

TakeBlock ==
    /\ pc = "call"
    /\ ret' = DataBlock_take_compacted_indices(src, indices, row_num, build)
    /\ pc' = "returned"
    /\ UNCHANGED <<build, src, indices, row_num, k>>

NextBlock == TakeBlock

SpecBlock == InitBlock /\ [][NextBlock]_vars

-----------------------------------------------------------------------------
(* SpecConc: two invocations of the kernels running concurrently, each     *)
(* advancing by one copy step at a time in any order.  The sources are     *)
(* shared memory behind & references (src.bufs; src.of[i] is the source    *)
(* invocation i reads, src.orig the sources as they were passed in); the   *)
(* invocation records k[i] hold each call's locals and its own output.     *)
(* Both calls are within the caller contract: indices in bounds, counts at *)
(* least 1 and summing to row_num.  Two invocations of the same kernel     *)
(* read the same source, two of different kernels different sources.       *)

Invocations == {1, 2}

ConcKinds == {"prim", "bool"}

\* The source of invocation 1 (and of invocation 2 when shared), and the
\* other source of invocation 2
ConcCol(kind) == IF kind = "prim" THEN <<10, 20>> ELSE <<TRUE, FALSE>>
ConcOther(kind) == IF kind = "prim" THEN <<20, 20, 10>> ELSE <<FALSE, FALSE, TRUE>>

\* The run lists within the contract over a source of len rows
ContractRuns(len) == SeqsUpTo((0..(len - 1)) \X (1..MaxCnt), MaxRuns)

\* The run list of invocation 2: a doubling run with a remainder, then a
\* single row
ConcRuns == << <<1, 3>>, <<0, 1>> >>

InvInit(kind, col, runs, n, b) ==
    [kind |-> kind,
     st   |-> IF kind = "prim" THEN PrimInit(col, runs, n, b) ELSE BoolInit(col, runs, n, b)]

InvStep(kind, st) == IF kind = "prim" THEN PrimStep(st) ELSE BoolStep(st)

InvResult(kind, st) == IF kind = "prim" THEN PrimResult(st) ELSE BoolResult(st)

InitConc ==
    /\ build \in Builds
    /\ \E ka \in ConcKinds, kb \in ConcKinds, shared \in BOOLEAN, runs \in ContractRuns(2) :
          /\ shared <=> ka = kb
          /\ LET bufs == <<ConcCol(ka), ConcOther(kb)>>
                 of   == <<1, IF shared THEN 1 ELSE 2>>
             IN  /\ src = [bufs |-> bufs, of |-> of, orig |-> bufs]
                 /\ indices = <<runs, ConcRuns>>
                 /\ row_num = <<SumCnt(runs), SumCnt(ConcRuns)>>
                 /\ k = <<InvInit(ka, bufs[of[1]], runs, SumCnt(runs), build),
                          InvInit(kb, bufs[of[2]], ConcRuns, SumCnt(ConcRuns), build)>>
    /\ ret = <<NoRet, NoRet>>
    /\ pc = <<"running", "running">>

\* One step of invocation i: it reads its source where the source is now and
\* whatever the step does to the memory behind col is done to the source.
ConcStep(i) ==
    /\ pc[i] = "running" /\ k[i].st.pc \notin PrimTerminal
    /\ LET cur  == [k[i].st EXCEPT !.col = src.bufs[src.of[i]]]
           next == InvStep(k[i].kind, cur)
       IN  /\ k' = [k EXCEPT ![i].st = next]
           /\ src' = [src EXCEPT !.bufs[src.of[i]] = next.col]
    /\ UNCHANGED <<build, indices, row_num, ret, pc>>

ConcReturn(i) ==
    /\ pc[i] = "running" /\ k[i].st.pc \in PrimTerminal
    /\ ret' = [ret EXCEPT ![i] = InvResult(k[i].kind, k[i].st)]
    /\ pc' = [pc EXCEPT ![i] = "returned"]
    /\ UNCHANGED <<build, src, indices, row_num, k>>

NextConc == \E i \in Invocations : ConcStep(i) \/ ConcReturn(i)

SpecConc == InitConc /\ [][NextConc]_vars

-----------------------------------------------------------------------------
(* Run-list vocabulary of the claims. *)

\* The caller contract of the spec: the counts sum to row_num.  (Indices are
\* in bounds in every run list the model enumerates.)
SumsTo(runs, n) == SumCnt(runs) = n

AllCntPositive(runs) == \A j \in 1..Len(runs) : runs[j][2] >= 1

\* prefix_j: the sum of the counts of the runs before run j
Prefix(runs, j) == SumCnt(SubSeq(runs, 1, j - 1))

\* The run that covers output position p (1-based): the one with
\* prefix_j < p <= prefix_j + cnt_j.
Covering(runs, p) ==
    CHOOSE j \in 1..Len(runs) : Prefix(runs, j) < p /\ p <= Prefix(runs, j) + runs[j][2]

\* The 0-based source index selected for output position p (1-based).
SelectedIndex(runs, p) == runs[Covering(runs, p)][1]

\* The value of row r (0-based) of a column.
RECURSIVE RowAt(_, _)
RowAt(c, r) ==
    CASE c.kind \in PlaceholderKinds -> c.kind
      [] c.kind \in PrimitiveKinds   -> c.values[r + 1]
      [] c.kind = "Boolean"          -> c.bits[r + 1]
      [] c.kind \in ArgKinds         -> c.items[r + 1]
      [] c.kind = "Array"            -> SubSeq(c.values, c.offsets[r + 1] + 1, c.offsets[r + 2])
      [] c.kind = "Map"              -> SubSeq(c.kv, c.offsets[r + 1] + 1, c.offsets[r + 2])
      [] c.kind = "Nullable"         -> <<c.validity[r + 1], RowAt(c.column, r)>>
      [] c.kind = "Tuple"            -> [f \in DOMAIN c.fields |-> RowAt(c.fields[f], r)]

\* The inner elements of an Array or Map column.
Inner(c) == IF c.kind = "Map" THEN c.kv ELSE c.values

\* A column with the slack of sliced Array and Map columns removed: offsets
\* re-based to 0 and the inner elements cut to the rows the offsets cover.
\* Two columns are structurally equal when these forms are equal.
RECURSIVE Canon(_)
Canon(c) ==
    CASE c.kind \in {"Array", "Map"} ->
            IF c.offsets = <<>> THEN c
            ELSE LET lo == c.offsets[1]
                     hi == c.offsets[Len(c.offsets)]
                     off == [j \in DOMAIN c.offsets |-> c.offsets[j] - lo]
                 IN  IF c.kind = "Map"
                     THEN [c EXCEPT !.kv = SubSeq(@, lo + 1, hi), !.offsets = off]
                     ELSE [c EXCEPT !.values = SubSeq(@, lo + 1, hi), !.offsets = off]
      [] c.kind = "Nullable" -> [c EXCEPT !.column = Canon(@)]
      [] c.kind = "Tuple" -> [c EXCEPT !.fields = [f \in DOMAIN @ |-> Canon(@[f])]]
      [] OTHER -> c

-----------------------------------------------------------------------------
(* Claims about take_primitive_types (SpecPrim). *)

\* C2: for a run list with every count >= 1 and counts summing to row_num,
\* take_primitive_types returns a vector of length row_num in which every
\* position of run j's block [prefix_j, prefix_j + cnt_j) holds
\* buffer[index_j], the runs laid out in run-list order.
C2_PrimitiveMatchesReference ==
    (pc = "returned" /\ SumsTo(indices, row_num) /\ AllCntPositive(indices)) =>
        /\ ret.status = "ok"
        /\ Len(ret.vec) = row_num
        /\ \A j \in 1..Len(indices) :
              \A p \in (Prefix(indices, j) + 1)..(Prefix(indices, j) + indices[j][2]) :
                 ret.vec[p] = src[indices[j][1] + 1]

\* C2 witness: the documented example, source [10,20,30] with runs
\* [(0,2),(2,1)], has returned [10,10,30].
C2_Witness ==
    /\ pc = "returned"
    /\ src = <<10, 20, 30>>
    /\ indices = << <<0, 2>>, <<2, 1>> >>
    /\ row_num = 3
    /\ ret = [status |-> "ok", vec |-> <<10, 10, 30>>]

\* What C4 asks of every step: no copy was unsafe, the copy just performed
\* wrote inside [0, row_num), read the output only where it had been written
\* (writes and reads of one copy are disjoint, so a cell written now was not
\* read now), did not overlap, and set_len got row_num.
PrimStepsSafe ==
    /\ k.pc # "ub"
    /\ k.pc # "panic"
    /\ k.copy.from # "none" =>
          /\ 0 <= k.copy.d /\ k.copy.d + k.copy.n <= row_num
          /\ k.copy.from = "out" =>
                /\ (k.copy.s + k.copy.n <= k.copy.d \/ k.copy.d + k.copy.n <= k.copy.s)
                /\ \A p \in k.copy.s..(k.copy.s + k.copy.n - 1) : p \in k.written
    /\ k.pc = "done" => k.len = row_num

\* C4 as stated: under "counts sum to row_num, indices in bounds" alone, a
\* count of zero included, every copy step is safe and set_len gets row_num.
C4_SafeUnderSumOnly ==
    SumsTo(indices, row_num) => PrimStepsSafe

\* C4 amended: the same under the further precondition that every count is
\* at least 1.
C4_SafeWhenCountsPositive ==
    (SumsTo(indices, row_num) /\ AllCntPositive(indices)) => PrimStepsSafe

\* C4 witness: a remainder copy (cnt = 3: block of 2, remainder 1) has just
\* been performed from the written block into the last cell.
C4_Witness ==
    /\ SumsTo(indices, row_num) /\ AllCntPositive(indices)
    /\ k.copy = [from |-> "out", s |-> 0, d |-> 2, n |-> 1]
    /\ k.offset = 3 /\ row_num = 3

-----------------------------------------------------------------------------
(* Claims about Column::take_compacted_indices (SpecCol). *)

\* C1: for every column kind and every run list whose counts sum to N, the
\* call returns a column of exactly N rows (stated here for the run lists
\* whose counts are all at least 1, which the claim includes).
C1_RowCountLaw ==
    (pc = "returned" /\ SumsTo(indices, row_num) /\ AllCntPositive(indices)) =>
        /\ ret.status = "ok"
        /\ ColLen(ret.col) = row_num

\* C3: for every Nullable source the output's inner column and validity
\* bitmap both have exactly R rows, and for every Tuple source every output
\* field has exactly R rows, placeholder inner and field columns included
\* (stated for the run lists whose counts are all at least 1).
C3_NestedAlignedToR ==
    (pc = "returned" /\ SumsTo(indices, row_num) /\ AllCntPositive(indices)) =>
        /\ src.kind = "Nullable" =>
              /\ ret.status = "ok"
              /\ ColLen(ret.col.column) = row_num
              /\ Len(ret.col.validity) = row_num
        /\ src.kind = "Tuple" =>
              /\ ret.status = "ok"
              /\ \A f \in DOMAIN ret.col.fields : ColLen(ret.col.fields[f]) = row_num

\* C5: in a debug build, a call with a run list whose counts do not sum to
\* row_num stops on an assertion failure, for every column kind.
C5_DebugAssertsOnBadSum ==
    (pc = "returned" /\ build = "debug" /\ ~SumsTo(indices, row_num)) =>
        ret.status = "panic"

\* C6: for every Array and Map source and every run list whose counts sum to
\* row_count, the output offsets start at 0, have length row_count + 1, are
\* non-decreasing, and for every output position i the width
\* offsets[i+1] - offsets[i] and the inner elements in that range are those of
\* the source row selected for position i.
C6_ArrayStructure ==
    (pc = "returned" /\ src.kind \in {"Array", "Map"} /\ SumsTo(indices, row_num)) =>
        /\ ret.status = "ok"
        /\ ret.col.kind = src.kind
        /\ Len(ret.col.offsets) = row_num + 1
        /\ ret.col.offsets[1] = 0
        /\ \A i \in 1..row_num :
              LET r == SelectedIndex(indices, i)
              IN  /\ ret.col.offsets[i] <= ret.col.offsets[i + 1]
                  /\ ret.col.offsets[i + 1] - ret.col.offsets[i]
                        = src.offsets[r + 2] - src.offsets[r + 1]
                  /\ SubSeq(Inner(ret.col), ret.col.offsets[i] + 1, ret.col.offsets[i + 1])
                        = SubSeq(Inner(src), src.offsets[r + 1] + 1, src.offsets[r + 2])

\* C6 witness: rows [10,20], [], [30] taken with runs [(2,1),(0,2)] have
\* returned rows [30], [10,20], [10,20].
C6_Witness ==
    /\ pc = "returned"
    /\ src = [kind |-> "Array", values |-> <<10, 20, 30>>, offsets |-> <<0, 2, 2, 3>>]
    /\ indices = << <<2, 1>>, <<0, 2>> >>
    /\ row_num = 3
    /\ ret = Ok([kind |-> "Array", values |-> <<30, 10, 20, 10, 20>>,
                 offsets |-> <<0, 1, 3, 5>>])

\* C7: for a Boolean source and a run list whose counts sum to row_num (zero
\* counts allowed), output bit i is the source bit at the index of the run
\* covering i; and whenever a Nullable source over a non-placeholder inner
\* column yields a column, which it does whenever all counts are at least 1,
\* row i's validity bit and inner value both come from the source row at the
\* index of the run covering i.
C7_BitmapAndNullableAligned ==
    (pc = "returned" /\ SumsTo(indices, row_num)) =>
        /\ src.kind = "Boolean" =>
              /\ ret.status = "ok"
              /\ Len(ret.col.bits) = row_num
              /\ \A i \in 1..row_num :
                    ret.col.bits[i] = src.bits[SelectedIndex(indices, i) + 1]
        /\ (src.kind = "Nullable" /\ src.column.kind \notin PlaceholderKinds) =>
              /\ AllCntPositive(indices) => ret.status = "ok"
              /\ ret.status = "ok" =>
                    /\ Len(ret.col.validity) = row_num
                    /\ ColLen(ret.col.column) = row_num
                    /\ \A i \in 1..row_num :
                          LET r == SelectedIndex(indices, i)
                          IN  /\ ret.col.validity[i] = src.validity[r + 1]
                              /\ RowAt(ret.col.column, i - 1) = RowAt(src.column, r)

\* C7 witness: booleans [true,false,true] with runs [(1,3)] have returned
\* [false,false,false].
C7_Witness ==
    /\ pc = "returned"
    /\ src = [kind |-> "Boolean", bits |-> <<TRUE, FALSE, TRUE>>]
    /\ indices = << <<1, 3>> >>
    /\ row_num = 3
    /\ ret = Ok([kind |-> "Boolean", bits |-> <<FALSE, FALSE, FALSE>>])

\* C8: for every column of n rows, of any kind, the take with the run list
\* [(0,1),...,(n-1,1)] and row count n returns a structurally equal column
\* (the very same representation, except that a sliced Array or Map comes
\* back with its offsets re-based to 0).
C8_IdentityLaw ==
    (pc = "returned" /\ indices = IdentityRuns(ColLen(src)) /\ row_num = ColLen(src)) =>
        /\ ret.status = "ok"
        /\ Canon(ret.col) = Canon(src)
        /\ Canon(src) = src => ret.col = src

\* C8 witness: a three-row Nullable over a placeholder column has been taken
\* with the identity run list.
C8_Witness ==
    /\ pc = "returned"
    /\ src = Nullable(Placeholder("EmptyMap", 3), <<FALSE, FALSE, TRUE>>)
    /\ indices = IdentityRuns(3)
    /\ row_num = 3
    /\ ret = Ok(src)

-----------------------------------------------------------------------------
(* Claims about DataBlock::take_compacted_indices (SpecBlock). *)

\* The entries of the returned block are as many as the input's, in the same
\* order, with the same data types and of the same sort (scalar or column).
SameSchema(out, in) ==
    /\ Len(out.columns) = Len(in.columns)
    /\ \A e \in DOMAIN in.columns :
          /\ out.columns[e].data_type = in.columns[e].data_type
          /\ out.columns[e].value.tag = in.columns[e].value.tag

\* C9: with an empty run list, whatever row_num, the batch-level take returns
\* Ok with a block of zero rows (every column entry has zero rows) that has
\* the input's entries in number, order and data type, and makes no
\* column-level call.
C9_EmptyRunList ==
    (pc = "returned" /\ indices = <<>>) =>
        /\ ret.status = "ok"
        /\ ret.block.num_rows = 0
        /\ SameSchema(ret.block, src)
        /\ \A e \in DOMAIN ret.block.columns :
              ret.block.columns[e].value.tag = "Column" =>
                 ColLen(ret.block.columns[e].value.column) = 0
        /\ ret.calls = 0

\* C9 witness: a three-row block with a column entry has been taken with the
\* empty run list.
C9_Witness ==
    /\ pc = "returned"
    /\ indices = <<>>
    /\ src.num_rows = 3
    /\ src.columns[1].value.tag = "Column"
    /\ ret.status = "ok"
    /\ ret.block.num_rows = 0

-----------------------------------------------------------------------------
(* The number of copies of the doubling loop (SpecPrim). *)

\* floor(log2(n)) and ceil(log2(n)) for n >= 1
FloorLog2(n) == BitLen(n) - 1
CeilLog2(n) == BitLen(n - 1)

\* C12 as stated: for every run with cnt > 1, the doubling loop (after the
\* copy of the source element, before any remainder copy) has made exactly
\* ceil(log2(cnt)) copies when it is left.
C12_DoublingCopiesCeil ==
    (k.dbl_done /\ k.dbl_cnt > 1) => k.dbl = CeilLog2(k.dbl_cnt)

\* C12 amended: the doubling loop has made exactly floor(log2(cnt)) copies
\* when it is left, and once the run is complete the doubling copies and the
\* remainder copy together are ceil(log2(cnt)).
C12_DoublingCopiesFloor ==
    (k.dbl_done /\ k.dbl_cnt > 1) =>
        /\ k.dbl = FloorLog2(k.dbl_cnt)
        /\ k.pc \in {"run", "set_len", "done"} => k.dbl + k.rem = CeilLog2(k.dbl_cnt)

\* C12 witness: a run of cnt = 3 has left its doubling loop after one copy
\* and made its remainder copy.
C12_Witness ==
    /\ k.dbl_done /\ k.dbl_cnt = 3
    /\ k.dbl = 1 /\ k.rem = 1
    /\ k.pc = "run"

-----------------------------------------------------------------------------
(* Concurrent invocations (SpecConc). *)

\* What invocation i returns when it runs alone on the sources as passed in
Alone(i) ==
    IF k[i].kind = "prim"
    THEN take_primitive_types(src.orig[src.of[i]], indices[i], row_num[i], build)
    ELSE take_bool_types(src.orig[src.of[i]], indices[i], row_num[i], build)

\* Invocation i has written only cells of its own output allocation
OwnOutputOnly(i) ==
    IF k[i].kind = "prim"
    THEN /\ k[i].st.pc # "ub"
         /\ DOMAIN k[i].st.builder = 0..(row_num[i] - 1)
         /\ k[i].st.written \subseteq 0..(row_num[i] - 1)
    ELSE Len(k[i].st.col_builder) <= row_num[i]

\* C11: in every interleaving of the copy steps of two invocations within
\* the caller contract, on the same source or on different ones, the sources
\* are never written, each invocation writes only cells of its own output,
\* a step of one invocation leaves the other invocation's state and output
\* as they were, and each invocation returns what it returns when run alone.
C11_Independent ==
    /\ [](/\ src.bufs = src.orig
          /\ \A i \in Invocations :
                /\ OwnOutputOnly(i)
                /\ pc[i] = "returned" => ret[i] = Alone(i) /\ ret[i].status = "ok")
    /\ [][\A i \in Invocations :
             k'[i] # k[i] => (k'[3 - i] = k[3 - i] /\ ret' = ret)]_vars

\* C11 witness: two invocations on the same source are both in the middle
\* of a run, each with part of its output written, and the first has since
\* made its remainder copy while the second is still doubling.
C11_Witness ==
    /\ src.of = <<1, 1>>
    /\ k[1].kind = "prim" /\ k[2].kind = "prim"
    /\ k[1].st.dbl_cnt = 3 /\ k[1].st.rem = 1
    /\ k[2].st.pc = "doubling" /\ k[2].st.dbl = 1

=============================================================================
